---- MODULE Spec2Model ----
(***************************************************************************)
(* A model of the singleton HTTP client of src/lib/api-client.ts: the      *)
(* process-wide ApiClient state, the five verb wrappers, and the request   *)
(* lifecycle (build URL, merge headers, encode body, attempt loop with     *)
(* timeout guard, response classification and retry with backoff).         *)
(*                                                                         *)
(* Strings the code inspects character by character (paths, base URLs)     *)
(* are sequences of one-character strings; other strings are TLA+ strings. *)
(* An optional value (a `?:` field, `undefined`, `null`) is the empty set  *)
(* when absent and a singleton set when present.                           *)
(***************************************************************************)
EXTENDS Integers, Sequences, FiniteSets, TLC

\* ------------------------------------------------------------- bounds

\* Largest `retry.attempts` a caller passes in the model.
MaxAttempts == 3

\* ------------------------------------------------------ optional values

None == {}
Some(x) == {x}
The(o) == CHOOSE x \in o : TRUE
\* The `??` operator of the code: the value when present, else the default.
OrElse(o, d) == IF o = {} THEN d ELSE The(o)

\* ---------------------------------------------------------- JS values

Undefined == [t |-> "undefined"]
Null == [t |-> "null"]
Str(s) == [t |-> "string", s |-> s]
Obj(f) == [t |-> "object", f |-> f]
\* Host objects the code must not serialise.
FormDataBody == [t |-> "FormData"]
BlobBody == [t |-> "Blob"]
ArrayBufferBody == [t |-> "ArrayBuffer"]
TypedArrayBody == [t |-> "Uint8Array"]

\* JSON.stringify(v): a string that is the JSON text of v, never v itself.
JSONstringify(v) == [t |-> "string", json |-> v]

\* Values of the concrete payloads used below.
ObjOk == Obj([ok |-> [t |-> "boolean", b |-> TRUE]])
ObjFoo == Obj([foo |-> Str("bar")])
ObjError == Obj([error |-> Str("invalid")])
ObjMessage == Obj([message |-> Str("Bad stuff happened")])
ObjNumMessage == Obj([message |-> [t |-> "number", n |-> 42]])
ObjEmptyMessage == Obj([message |-> Str("")])

\* ------------------------------------------------------------- errors

\* A thrown value: `name`, `message`, optional numeric `status`, optional
\* `data`, and `at`, the attempt that produced it (its identity).
\* A message is a string value; Fmt is a template string with its number.
Fmt(text, n) == [t |-> "string", fmt |-> text, n |-> n]

ApiError(message, status, data, at) ==
    [name |-> "ApiError", message |-> message, status |-> Some(status),
     data |-> data, at |-> at]

\* Faulty variant: the timeout is raised as an abort.
TimeoutAsAbortError(ms, at) ==
    [name |-> "AbortError", message |-> Fmt("Request timed out after {n}ms", ms),
     status |-> None, data |-> Undefined, at |-> at]

\* new Error(`Request timed out after ${ms}ms`)
TimeoutError(ms, at) ==
    [name |-> "Error", message |-> Fmt("Request timed out after {n}ms", ms),
     status |-> None, data |-> Undefined, at |-> at]

\* What the transport (or a payload read) may reject with.
NetworkError(at) ==
    [name |-> "TypeError", message |-> Str("fetch failed"),
     status |-> None, data |-> Undefined, at |-> at]
AbortError(at) ==
    [name |-> "AbortError", message |-> Str("aborted"),
     status |-> None, data |-> Undefined, at |-> at]
\* An error of another realm with the shape of an ApiError.
ForeignApiError(at) ==
    [name |-> "ApiError", message |-> Str("upstream"),
     status |-> Some(503), data |-> Undefined, at |-> at]
\* JSON.parse failing inside res.json().
SyntaxError(at) ==
    [name |-> "SyntaxError", message |-> Str("Unexpected end of JSON input"),
     status |-> None, data |-> Undefined, at |-> at]
\* new URL(...) failing.
InvalidUrlError ==
    [name |-> "TypeError", message |-> Str("Invalid URL"),
     status |-> None, data |-> Undefined, at |-> 0]

isApiErrorLike(err) == err.name = "ApiError" /\ err.status # None

\* Faulty variant: the guard tests a name the transport never uses.
isAbortErrorMisnamed(err) == err.name = "Abort"

isAbortError(err) == err.name = "AbortError"

\* ------------------------------------------------------------ headers

\* A plain object of headers: a function from the key as spelled to the value.
EmptyHeaders == [k \in {} |-> ""]

\* Object spread { ...a, ...b }: b's own keys win.
Spread(a, b) ==
    [k \in (DOMAIN a) \cup (DOMAIN b) |-> IF k \in DOMAIN b THEN b[k] ELSE a[k]]

\* delete obj[key]
DeleteKey(h, key) == [k \in (DOMAIN h) \ {key} |-> h[k]]

\* Header names are case-insensitive on the wire.
Lower(k) ==
    CASE k \in {"Content-Type", "content-type", "CONTENT-TYPE"} -> "content-type"
      [] k \in {"Authorization", "authorization"} -> "authorization"
      [] k \in {"X-Test", "x-test"} -> "x-test"
      [] OTHER -> k

\* new Headers(h).has(name), as the transport sees the headers it is given.
HeadersHas(h, name) == \E k \in DOMAIN h : Lower(k) = Lower(name)

\* The own enumerable properties that `...headers` copies from a HeadersInit:
\* a plain record gives its keys; a Headers instance has none; an array of
\* pairs gives its indices; undefined gives nothing.
OwnProps(headers) ==
    CASE headers.container = "record" -> headers.entries
      [] headers.container = "Headers" -> EmptyHeaders
      [] headers.container = "array" ->
           LET k == CHOOSE x \in DOMAIN headers.entries : TRUE
           IN  [i \in {"0"} |-> k \o "," \o headers.entries[k]]
      [] OTHER -> EmptyHeaders

DefaultHeaders == [k \in {"Content-Type"} |-> "application/json"]

\* Merge in the precedence defaults -> auth -> per-request.
MergedHeaders(defaultHeaders, authToken, headers) ==
    Spread(Spread(defaultHeaders,
                  IF authToken # None /\ The(authToken) # ""
                  THEN [k \in {"Authorization"} |-> "Bearer " \o The(authToken)]
                  ELSE EmptyHeaders),
           OwnProps(headers))

\* ------------------------------------------------------ body encoding

isMultipartLike(body) ==
    body.t \in {"FormData", "Blob", "ArrayBuffer", "Uint8Array"}

\* Faulty variant: the body is encoded for any verb.
BuildInitAnyVerb(method, body, mergedHeaders) ==
    IF body # Undefined
    THEN IF isMultipartLike(body)
         THEN [method |-> method,
               headers |-> DeleteKey(mergedHeaders, "Content-Type"),
               body |-> Some(body)]
         ELSE IF "Content-Type" \in DOMAIN mergedHeaders
                 /\ mergedHeaders["Content-Type"] = "application/json"
              THEN [method |-> method, headers |-> mergedHeaders,
                    body |-> Some(JSONstringify(body))]
              ELSE [method |-> method, headers |-> mergedHeaders,
                    body |-> Some(body)]
    ELSE [method |-> method, headers |-> mergedHeaders, body |-> None]

\* Faulty variant: a payload is never serialised.
BuildInitRaw(method, body, mergedHeaders) ==
    IF method # "GET" /\ body # Undefined
    THEN IF isMultipartLike(body)
         THEN [method |-> method,
               headers |-> DeleteKey(mergedHeaders, "Content-Type"),
               body |-> Some(body)]
         ELSE [method |-> method, headers |-> mergedHeaders, body |-> Some(body)]
    ELSE [method |-> method, headers |-> mergedHeaders, body |-> None]

\* The init object handed to fetch: method, headers and optional body.
BuildInit(method, body, mergedHeaders) ==
    IF method # "GET" /\ body # Undefined
    THEN IF isMultipartLike(body)
         THEN [method |-> method,
               headers |-> DeleteKey(mergedHeaders, "Content-Type"),
               body |-> Some(body)]
         ELSE IF "Content-Type" \in DOMAIN mergedHeaders
                 /\ mergedHeaders["Content-Type"] = "application/json"
              THEN [method |-> method, headers |-> mergedHeaders,
                    body |-> Some(JSONstringify(body))]
              ELSE [method |-> method, headers |-> mergedHeaders,
                    body |-> Some(body)]
    ELSE [method |-> method, headers |-> mergedHeaders, body |-> None]

\* ------------------------------------------------------------- URLs

StartsWith(s, p) == Len(s) >= Len(p) /\ SubSeq(s, 1, Len(p)) = p

\* Position of the first '/' of s, or Len(s) + 1.
FirstSlash(s) ==
    IF \E i \in 1..Len(s) : s[i] = "/"
    THEN CHOOSE i \in 1..Len(s) : s[i] = "/" /\ \A j \in 1..(i - 1) : s[j] # "/"
    ELSE Len(s) + 1

\* s without its leading '/' characters.
RECURSIVE SkipSlashes(_)
SkipSlashes(s) == IF s # <<>> /\ s[1] = "/" THEN SkipSlashes(Tail(s)) ELSE s

HttpScheme == <<"h", "t", "t", "p", ":", "/", "/">>
HttpsScheme == <<"h", "t", "t", "p", "s", ":", "/", "/">>
Localhost == <<"l", "o", "c", "a", "l", "h", "o", "s", "t">>

InvalidUrl == [ok |-> FALSE]

\* An absolute http(s) URL used as a base: its scheme and host.
ParseBase(base) ==
    LET scheme == IF StartsWith(base, HttpsScheme) THEN HttpsScheme
                  ELSE IF StartsWith(base, HttpScheme) THEN HttpScheme
                  ELSE <<>>
        rest == SubSeq(base, Len(scheme) + 1, Len(base))
        host == SubSeq(rest, 1, FirstSlash(rest) - 1)
    IN  IF scheme = <<>> \/ host = <<>> THEN InvalidUrl
        ELSE [ok |-> TRUE, scheme |-> scheme, host |-> host]

\* new URL(rel, base) for a rel that begins with '/': a rel that begins
\* with "//" names its own host (extra slashes are skipped); any other rel
\* replaces the path of the base.
NewURL(rel, base) ==
    LET b == ParseBase(base)
    IN  IF ~b.ok THEN InvalidUrl
        ELSE IF StartsWith(rel, <<"/", "/">>)
             THEN LET r == SkipSlashes(rel)
                      host == SubSeq(r, 1, FirstSlash(r) - 1)
                      path == SubSeq(r, FirstSlash(r), Len(r))
                  IN  IF host = <<>> THEN InvalidUrl
                      ELSE [ok |-> TRUE, scheme |-> b.scheme, host |-> host,
                            pathname |-> IF path = <<>> THEN <<"/">> ELSE path]
             ELSE [ok |-> TRUE, scheme |-> b.scheme, host |-> b.host,
                   pathname |-> rel]

\* typeof window === 'undefined'
isServer(window) == window = None

\* String(v) for a query value.
String(v) ==
    CASE v.t = "string" -> v.s
      [] v.t = "number" -> IF v.n = 0 THEN "0" ELSE IF v.n = 2 THEN "2" ELSE "42"
      [] v.t = "boolean" -> IF v.b THEN "true" ELSE "false"
      [] OTHER -> v.t

\* The application/x-www-form-urlencoded form of a string, as url.toString()
\* writes a search parameter, over the strings of the model.
Encode(str) ==
    CASE str = "hello world" -> "hello+world"
      [] str = "a&b=c" -> "a%26b%3Dc"
      [] OTHER -> str

\* url.searchParams.set(k, v) on a list of <<name, value>> pairs: the first
\* pair named k gets the value and any other pair named k is removed; without
\* such a pair one is appended.
SetParam(params, k, v) ==
    IF \E i \in DOMAIN params : params[i][1] = k
    THEN LET first == CHOOSE i \in DOMAIN params :
                         /\ params[i][1] = k
                         /\ \A j \in 1..(i - 1) : params[j][1] # k
             kept == SelectSeq([i \in DOMAIN params |-> <<i, params[i]>>],
                               LAMBDA e : e[2][1] # k \/ e[1] = first)
         IN  [i \in DOMAIN kept |->
                IF kept[i][1] = first THEN <<k, v>> ELSE kept[i][2]]
    ELSE Append(params, <<k, v>>)

\* Faulty variant: every entry of the query is set, absent values too.
RECURSIVE SetEntriesUnfiltered(_, _)
SetEntriesUnfiltered(entries, params) ==
    IF entries = <<>> THEN params
    ELSE SetEntriesUnfiltered(Tail(entries),
            SetParam(params, Head(entries).k, Encode(String(Head(entries).v))))

\* for (const [k, v] of Object.entries(query)): null/undefined are skipped,
\* any other value is set as String(v).
RECURSIVE SetEntries(_, _)
SetEntries(entries, params) ==
    IF entries = <<>> THEN params
    ELSE LET e == Head(entries)
         IN  SetEntries(Tail(entries),
                        IF e.v # Null /\ e.v # Undefined
                        THEN SetParam(params, e.k, Encode(String(e.v)))
                        ELSE params)

\* The search parameters of the built URL, as written by url.toString().
SearchParams(query) ==
    IF query = None THEN <<>> ELSE SetEntries(The(query), <<>>)

buildUrl(baseUrl, window, path, query) ==
    LET cleanedPath == IF StartsWith(path, <<"/">>) THEN path ELSE <<"/">> \o path
        origin == IF baseUrl # <<>> THEN baseUrl
                  ELSE IF isServer(window) THEN HttpScheme \o Localhost
                  ELSE The(window)
        url == NewURL(cleanedPath, origin)
    IN  IF ~url.ok THEN InvalidUrl
        ELSE [ok |-> TRUE,
              href |-> url.scheme \o url.host \o url.pathname,
              search |-> SearchParams(query)]

\* ---------------------------------------------------------- responses

\* A transport response: status, status text, declared content type (absent
\* when the header is missing) and the payload on the wire. The payload is
\* JSON text of a value, raw text, or empty.
JsonWire(v) == [enc |-> "json", of |-> v]
RawWire(s) == [enc |-> "raw", s |-> s]
EmptyWire == [enc |-> "empty"]

Response(status, statusText, contentType, wire) ==
    [status |-> status, statusText |-> statusText,
     contentType |-> contentType, wire |-> wire]

NoResponse == [status |-> 0]

\* Faulty variant: any answered request counts as a success.
okAnyStatus(res) == res.status >= 200

\* res.ok
ok(res) == res.status \in 200..299

\* res.headers.get('content-type') || ''
ContentTypeOf(res) == OrElse(res.contentType, "")

\* ct.includes(part), over the content types of the model.
Includes(ct, part) ==
    CASE part = "application/json" ->
           ct \in {"application/json", "application/json; charset=utf-8"}
      [] part = "application/octet-stream" -> ct = "application/octet-stream"
      [] part = "image/" -> ct = "image/png"
      [] part = "video/" -> ct = "video/mp4"
      [] part = "audio/" -> ct = "audio/mpeg"
      [] part = "application/pdf" -> ct = "application/pdf"
      [] part = "multipart/form-data" -> ct = "multipart/form-data; boundary=x"
      [] OTHER -> FALSE

\* res.json(): the parsed value, or a SyntaxError when the payload is not
\* JSON text.
CanParseJson(res) == res.wire.enc = "json"
JsonOf(res) == res.wire.of

\* res.text(): the payload as a string.
TextOf(res) ==
    CASE res.wire.enc = "json" -> JSONstringify(res.wire.of)
      [] res.wire.enc = "raw" -> Str(res.wire.s)
      [] OTHER -> Str("")

\* The payload decoded for a non-2xx response; a failed decode is swallowed.
\* `fault` is a failure of the read itself ("none" when the read completes).
ErrorData(res, fault) ==
    IF fault # "none" THEN Undefined
    ELSE IF Includes(ContentTypeOf(res), "application/json")
         THEN IF CanParseJson(res) THEN JsonOf(res) ELSE Undefined
         ELSE TextOf(res)

\* Faulty variant: an empty message is left empty.
ErrorMessageNoSynthesis(res, data) ==
    LET isJson == Includes(ContentTypeOf(res), "application/json")
        m1 == IF isJson /\ data.t = "object" /\ "message" \in DOMAIN data.f
              THEN IF data.f["message"].t = "string"
                   THEN Some(data.f["message"]) ELSE None
              ELSE None
    IN  IF m1 = None \/ The(m1) = Str("")
        THEN IF data.t = "string" THEN data ELSE Str(res.statusText)
        ELSE The(m1)

\* The message of the ApiError built from a non-2xx response: the string
\* `message` field of a JSON object payload, else the payload when it is a
\* string, else the status text; an empty result becomes `HTTP ${status}`.
ErrorMessage(res, data) ==
    LET isJson == Includes(ContentTypeOf(res), "application/json")
        m1 == IF isJson /\ data.t = "object" /\ "message" \in DOMAIN data.f
              THEN IF data.f["message"].t = "string"
                   THEN Some(data.f["message"]) ELSE None
              ELSE None
        m2 == IF m1 = None \/ The(m1) = Str("")
              THEN IF data.t = "string" THEN data ELSE Str(res.statusText)
              ELSE The(m1)
    IN  IF m2 = Str("") THEN Fmt("HTTP {n}", res.status) ELSE m2

\* Faulty variant: every response that is not JSON is read as text.
DecoderJsonOrText(res) ==
    IF Includes(ContentTypeOf(res), "application/json") THEN "json" ELSE "text"

\* parseResponse: which reader decodes a 2xx response.
Decoder(res) ==
    LET contentType == ContentTypeOf(res)
    IN  IF Includes(contentType, "application/json") THEN "json"
        ELSE IF \/ Includes(contentType, "application/octet-stream")
                \/ Includes(contentType, "image/")
                \/ Includes(contentType, "video/")
                \/ Includes(contentType, "audio/")
                \/ Includes(contentType, "application/pdf") THEN "blob"
        ELSE IF Includes(contentType, "multipart/form-data") THEN "formData"
        ELSE "text"

\* What the chosen reader yields for a readable payload.
Decoded(res) ==
    CASE Decoder(res) = "json" -> JsonOf(res)
      [] Decoder(res) = "blob" -> [t |-> "Blob", of |-> res.wire]
      [] Decoder(res) = "formData" -> [t |-> "FormData", of |-> res.wire]
      [] OTHER -> TextOf(res)

\* Whether the chosen reader can decode the payload at all.
Decodable(res) == Decoder(res) = "json" => CanParseJson(res)

\* ------------------------------------------------------- retry policy

\* Faulty variant: the configured number is used as given.
AttemptsUnclamped(retry) ==
    IF retry = None THEN 1 ELSE OrElse(The(retry).attempts, 1)

\* Math.max(1, retry?.attempts ?? 1)
Attempts(retry) ==
    LET a == IF retry = None THEN 1 ELSE OrElse(The(retry).attempts, 1)
    IN  IF a > 1 THEN a ELSE 1

DefaultBackoffMs == 300

\* retry?.backoffMs ?? 300
BackoffMs(retry) ==
    IF retry = None THEN DefaultBackoffMs
    ELSE OrElse(The(retry).backoffMs, DefaultBackoffMs)

DefaultRetryOn == {408, 429, 500, 502, 503, 504}

\* new Set(retry?.retryOn ?? [408, 429, 500, 502, 503, 504])
RetryOn(retry) ==
    IF retry = None THEN DefaultRetryOn
    ELSE OrElse(The(retry).retryOn, DefaultRetryOn)

\* Faulty variant: the same delay before every retry.
DelayConstant(backoffMs, n) == backoffMs

\* backoffMs * Math.pow(2, attempt - 1)
Delay(backoffMs, n) == backoffMs * 2^(n - 1)

DefaultTimeoutMs == 15000

\* timeoutMs = 15_000 when the option is undefined
TimeoutMs(o) == OrElse(o.timeoutMs, DefaultTimeoutMs)

\* Faulty variant: the timer is armed whatever the duration.
TimerAlwaysArmed(ms) == TRUE

\* withTimeout arms a timer only for a positive duration.
TimerArmed(ms) == ~(ms = 0 \/ ms <= 0)

\* ------------------------------------------------ base URL resolution

\* String.prototype.trim over the blank of the model.
RECURSIVE TrimStart(_)
TrimStart(s) == IF s # <<>> /\ s[1] = " " THEN TrimStart(Tail(s)) ELSE s
RECURSIVE TrimEnd(_)
TrimEnd(s) ==
    IF s # <<>> /\ s[Len(s)] = " " THEN TrimEnd(SubSeq(s, 1, Len(s) - 1)) ELSE s
Trim(s) == TrimEnd(TrimStart(s))

\* Faulty variant: one trailing slash is removed, not all of them.
StripOneSlash(s) ==
    IF s # <<>> /\ s[Len(s)] = "/" THEN SubSeq(s, 1, Len(s) - 1) ELSE s

\* chosen.replace(/\/+$/, '')
RECURSIVE StripTrailingSlashes(_)
StripTrailingSlashes(s) ==
    IF s # <<>> /\ s[Len(s)] = "/"
    THEN StripTrailingSlashes(SubSeq(s, 1, Len(s) - 1)) ELSE s

\* process.env.X?.trim() || ''
TrimmedOrEmpty(v) == IF v = None THEN <<>> ELSE Trim(The(v))

\* !/^https?:\/\//.test(cleaned), for a cleaned that is not empty
Malformed(cleaned) ==
    /\ cleaned # <<>>
    /\ ~StartsWith(cleaned, HttpScheme)
    /\ ~StartsWith(cleaned, HttpsScheme)

\* Faulty variant: a base URL without a scheme is dropped, so that the client falls
\* back to the same origin.
resolveBaseUrlDroppingMalformed(env, window) ==
    LET serverBase == TrimmedOrEmpty(env.API_BASE_URL)
        clientBase == TrimmedOrEmpty(env.NEXT_PUBLIC_API_BASE_URL)
        chosen == IF isServer(window) THEN serverBase ELSE clientBase
        cleaned == StripTrailingSlashes(chosen)
    IN  IF Malformed(cleaned) THEN <<>> ELSE cleaned

\* The value resolveBaseUrl returns.
resolveBaseUrl(env, window) ==
    LET serverBase == TrimmedOrEmpty(env.API_BASE_URL)
        clientBase == TrimmedOrEmpty(env.NEXT_PUBLIC_API_BASE_URL)
        chosen == IF isServer(window) THEN serverBase ELSE clientBase
    IN  StripTrailingSlashes(chosen)

\* What resolveBaseUrl hands to console.warn: the variable read and the
\* cleaned value, when that value has no http or https scheme.
InvalidBaseUrlWarning(envVar, cleaned) ==
    [warn |-> "Invalid base URL format", envVar |-> envVar, value |-> cleaned]
BaseUrlWarnings(env, window) ==
    LET serverBase == TrimmedOrEmpty(env.API_BASE_URL)
        clientBase == TrimmedOrEmpty(env.NEXT_PUBLIC_API_BASE_URL)
        chosen == IF isServer(window) THEN serverBase ELSE clientBase
        cleaned == StripTrailingSlashes(chosen)
        envVar == IF isServer(window) THEN "API_BASE_URL"
                  ELSE "NEXT_PUBLIC_API_BASE_URL"
    IN  IF Malformed(cleaned) THEN <<InvalidBaseUrlWarning(envVar, cleaned)>>
        ELSE <<>>

\* ---------------------------------------------------------- the inputs

\* Environments the process may be started in.
AppOrigin == HttpsScheme \o <<"a", "p", "p">>
ApiBase == HttpsScheme \o <<"a", "p", "i">>
NoEnv == [API_BASE_URL |-> None, NEXT_PUBLIC_API_BASE_URL |-> None]
Scenarios ==
    { [env |-> NoEnv, window |-> None],
      [env |-> [NoEnv EXCEPT !.NEXT_PUBLIC_API_BASE_URL = Some(ApiBase \o <<"/">>)],
       window |-> Some(AppOrigin)] }

\* Environments and execution contexts for the resolver: each variable is
\* unset, blank, or a base URL. The server one ends with two slashes and a
\* blank, the public one with a slash or is a host name without a scheme.
ServerBase == HttpsScheme \o <<"s", "r", "v">>
SchemelessBase == <<"a", "p", "i">>
Envs ==
    { [API_BASE_URL |-> s, NEXT_PUBLIC_API_BASE_URL |-> c] :
        s \in {None, Some(<<" ">>), Some(ServerBase \o <<"/", "/", " ">>)},
        c \in {None, Some(<<" ">>), Some(ApiBase \o <<"/">>),
               Some(SchemelessBase)} }
Windows == {None, Some(AppOrigin)}

Tokens == {None, Some("shhh-token")}

NoHeaders == [container |-> "undefined", entries |-> EmptyHeaders]
Record(k, v) == [container |-> "record", entries |-> [x \in {k} |-> v]]
HeaderInputs ==
    { NoHeaders,
      Record("Content-Type", "text/plain"),
      Record("Content-Type", "application/json"),
      Record("content-type", "multipart/form-data"),
      Record("content-type", "text/plain"),
      Record("X-Test", "yes"),
      Record("Authorization", "Bearer per-call"),
      [container |-> "Headers", entries |-> [x \in {"Content-Type"} |-> "text/plain"]],
      [container |-> "array", entries |-> [x \in {"Content-Type"} |-> "text/plain"]] }

Bodies ==
    { Undefined, Null, Str("hello world"), ObjFoo,
      FormDataBody, BlobBody, ArrayBufferBody, TypedArrayBody }

PathHealth == <<"/", "h">>
Paths == { PathHealth, <<"h">>, <<"/", "/">>, <<"/", "/", "e", "/", "x">> }

Num(n) == [t |-> "number", n |-> n]
Bool(b) == [t |-> "boolean", b |-> b]
Entry(k, v) == [k |-> k, v |-> v]
\* A query is the list of its entries, in the order of Object.entries.
Queries ==
    { None,
      Some(<< Entry("q", Str("hello world")), Entry("page", Num(2)),
              Entry("skipNull", Null), Entry("skipUndef", Undefined),
              Entry("flag", Bool(FALSE)), Entry("zero", Num(0)),
              Entry("empty", Str("")), Entry("amp", Str("a&b=c")) >>) }

RetryPolicy(a, b, r) == [attempts |-> a, backoffMs |-> b, retryOn |-> r]
Retries ==
    {None}
    \cup {Some(RetryPolicy(a, None, None)) :
            a \in {None} \cup {Some(n) : n \in 0..MaxAttempts}}
    \cup {Some(RetryPolicy(Some(MaxAttempts), Some(100), Some({404})))}

Timeouts == {None, Some(0), Some(25)}
Signals == {"none", "live", "aborted"}

\* The options of a plain call; the families below vary it.
Plain ==
    [method |-> "GET", path |-> PathHealth, query |-> None, body |-> Undefined,
     headers |-> NoHeaders, signal |-> "none", timeoutMs |-> None,
     retry |-> None]

PathInputs == {[Plain EXCEPT !.path = p, !.query = q] : p \in Paths, q \in Queries}
EncodingInputs ==
    {[Plain EXCEPT !.body = b, !.headers = h] : b \in Bodies, h \in HeaderInputs}
RetryInputs ==
    {[Plain EXCEPT !.retry = r, !.timeoutMs = t, !.signal = s] :
        r \in Retries, t \in Timeouts, s \in Signals}
\* A path that makes no URL, under every retry policy.
ConstructionInputs == {[Plain EXCEPT !.path = <<"/", "/">>, !.retry = r] : r \in Retries}
RequestInputs ==
    PathInputs \cup EncodingInputs \cup RetryInputs \cup ConstructionInputs

\* Declared content types of the media families parseResponse tells apart,
\* and a response that declares none.
DecodedTypes ==
    { Some("application/octet-stream"), Some("image/png"), Some("video/mp4"),
      Some("audio/mpeg"), Some("application/pdf"),
      Some("multipart/form-data; boundary=x"), None }

\* What the transport may answer an attempt with.
Responses ==
    { Response(200, "OK", Some("application/json"), JsonWire(ObjOk)),
      Response(200, "OK", Some("application/json"), EmptyWire),
      Response(200, "OK", Some("text/plain"), RawWire("pong")),
      Response(400, "", Some("application/json"), JsonWire(ObjMessage)),
      Response(401, "Unauthorized", Some("text/plain"), EmptyWire),
      Response(404, "Not Found", Some("application/json"), JsonWire(ObjError)),
      Response(422, "", Some("application/json"), JsonWire(ObjError)),
      Response(500, "", Some("text/plain"), RawWire("Internal fail")),
      Response(500, "Internal Server Error", Some("application/json"), EmptyWire) }
    \cup { Response(200, "OK", ct, RawWire("bytes")) : ct \in DecodedTypes }

\* ------------------------------------------------------------ the state

VARIABLES
    env,            \* process.env: the two base URL variables
    ctor,           \* history: process.env and window when the client was built
    window,         \* the global `window`: absent on the server, else its origin
    baseUrl,        \* ApiClient.baseUrl
    defaultHeaders, \* ApiClient.defaultHeaders
    authToken,      \* ApiClient.authToken
    console,        \* what console.warn has been called with
    others,         \* the other calls in flight on the client: options and init
    pc,             \* where the call in progress is suspended
    opts,           \* the RequestOptions of the call
    url,            \* const url
    init,           \* const init (with mergedHeaders)
    attempt,        \* the loop counter
    res,            \* const res of the current attempt
    lastError,      \* let lastError
    thrown,         \* the value the call's promise is rejected with
    result,         \* the value the call's promise is resolved with
    aborted,        \* whether the caller's signal has fired
    pending,        \* attempts whose transport promise has not settled
    log             \* history: transport invocations, outcomes, backoff waits

clientVars ==
    <<env, ctor, window, baseUrl, defaultHeaders, authToken, console, others>>
callVars == <<pc, opts, url, init, attempt, res, lastError, thrown, result,
              aborted, pending, log>>
vars == <<env, ctor, window, baseUrl, defaultHeaders, authToken, console, others,
          pc, opts,
          url, init,
          attempt, res, lastError, thrown, result, aborted, pending, log>>

NoError == [name |-> "none"]
NoInit == [method |-> "none"]

\* The state once the module is loaded: `api = ApiClient.instance`.
Init ==
    /\ \E sc \in Scenarios :
          /\ env = sc.env
          /\ ctor = sc
          /\ window = sc.window
          /\ baseUrl = resolveBaseUrl(sc.env, sc.window)
          /\ console = BaseUrlWarnings(sc.env, sc.window)
    /\ others = {}
    /\ defaultHeaders = DefaultHeaders
    /\ authToken = None
    /\ pc = "idle"
    /\ opts = Plain
    /\ url = InvalidUrl
    /\ init = NoInit
    /\ attempt = 0
    /\ res = NoResponse
    /\ lastError = NoError
    /\ thrown = NoError
    /\ result = Undefined
    /\ aborted = FALSE
    /\ pending = {}
    /\ log = <<>>

\* --------------------------------------------------------- the history

FetchEvent(n, u, i, a) ==
    [ev |-> "fetch", n |-> n, url |-> u, init |-> i, aborted |-> a]
ResponseEvent(n, status) == [ev |-> "response", n |-> n, status |-> status]
RejectEvent(n, err) == [ev |-> "reject", n |-> n, err |-> err]
TimeoutEvent(n, ms) == [ev |-> "timeout", n |-> n, ms |-> ms]
ReadFailEvent(n, err) == [ev |-> "readfail", n |-> n, err |-> err]
WaitEvent(n, delay) == [ev |-> "wait", n |-> n, delay |-> delay]

\* How many times the transport has been invoked by the call.
fetchCalls == Cardinality({i \in DOMAIN log : log[i].ev = "fetch"})

\* Whether the caller's signal is wired to the transport and has fired.
Cancelled == opts.signal # "none" /\ aborted

\* ---------------------------------------------------- retry decisions

\* Faulty variant: any status is retried while attempts remain.
ShouldRetryAnyStatus(n, attempts, retryOn, status) == n < attempts

\* if (attempt < attempts && retryOn.has(res.status))
ShouldRetryStatus(n, attempts, retryOn, status) ==
    n < attempts /\ status \in retryOn

\* Faulty variant: every caught error is retried while attempts remain.
ShouldRetryAnyError(n, attempts, err) == n < attempts

\* if (attempt < attempts && !isApiErrorLike(err) && !isAbortError(err))
ShouldRetryError(n, attempts, err) ==
    n < attempts /\ ~isApiErrorLike(err) /\ ~isAbortError(err)

\* for (let attempt = 1; attempt <= attempts; attempt++)
LoopGoesOn(n, attempts) == n <= attempts

\* new Error('Unknown API error')
UnknownApiError ==
    [name |-> "Error", message |-> Str("Unknown API error"),
     status |-> None, data |-> Undefined, at |-> 0]

\* The throw after the loop: lastError when it is an Error.
FinalThrow(err) == IF err.name = "none" THEN UnknownApiError ELSE err

\* Faulty variant: the catch block rethrows a new error made from the caught one.
CatchWrapped(err, lg) ==
    /\ lastError' = err
    /\ IF ShouldRetryError(attempt, Attempts(opts.retry), err)
       THEN /\ pc' = "backoff"
            /\ log' = Append(lg, WaitEvent(attempt,
                               Delay(BackoffMs(opts.retry), attempt)))
            /\ thrown' = thrown
            /\ res' = NoResponse
       ELSE /\ pc' = "failed"
            /\ log' = lg
            /\ thrown' = [name |-> "Error", message |-> err.message,
                          status |-> None, data |-> Undefined, at |-> err.at]
            /\ res' = res

\* Faulty variant: the catch block goes on to the next attempt without awaiting the
\* backoff delay.
CatchWithoutWait(err, lg) ==
    /\ lastError' = err
    /\ IF ShouldRetryError(attempt, Attempts(opts.retry), err)
       THEN /\ pc' = "backoff"
            /\ log' = lg
            /\ thrown' = thrown
            /\ res' = NoResponse
       ELSE /\ pc' = "failed"
            /\ log' = lg
            /\ thrown' = err
            /\ res' = res

\* The catch block: keep the error, then wait and go on, or rethrow it.
\* `lg` is the history up to the failure. `res` is scoped to one iteration
\* of the loop: it is gone once the loop goes on.
Catch(err, lg) ==
    /\ lastError' = err
    /\ IF ShouldRetryError(attempt, Attempts(opts.retry), err)
       THEN /\ pc' = "backoff"
            /\ log' = Append(lg, WaitEvent(attempt,
                               Delay(BackoffMs(opts.retry), attempt)))
            /\ thrown' = thrown
            /\ res' = NoResponse
       ELSE /\ pc' = "failed"
            /\ log' = lg
            /\ thrown' = err
            /\ res' = res

\* ------------------------------------------------------------ actions

\* setAuth(token)
setAuth(token) ==
    /\ authToken' = token
    /\ UNCHANGED <<env, ctor, window, baseUrl, defaultHeaders, console, others>>
    /\ UNCHANGED callVars

\* Faulty variant: the URL is built inside the try block of the first attempt,
\* so that a URL that cannot be built is caught and retried like a transport
\* failure.
requestBuildingInLoop(o) ==
    /\ pc = "idle"
    /\ opts' = o
    /\ aborted' = (o.signal = "aborted")
    /\ result' = Undefined
    /\ LET u == buildUrl(baseUrl, window, o.path, o.query)
           i == BuildInit(o.method, o.body,
                          MergedHeaders(defaultHeaders, authToken, o.headers))
       IN  /\ url' = u
           /\ init' = i
           /\ IF ~LoopGoesOn(1, Attempts(o.retry))
              THEN /\ attempt' = 1
                   /\ pc' = "failed"
                   /\ pending' = {}
                   /\ log' = <<>>
                   /\ res' = NoResponse
                   /\ lastError' = NoError
                   /\ thrown' = FinalThrow(NoError)
              ELSE IF ~u.ok
              THEN /\ attempt' = 1
                   /\ pending' = {}
                   /\ res' = NoResponse
                   /\ lastError' = InvalidUrlError
                   /\ IF ShouldRetryError(1, Attempts(o.retry), InvalidUrlError)
                      THEN /\ pc' = "backoff"
                           /\ log' = <<WaitEvent(1, Delay(BackoffMs(o.retry), 1))>>
                           /\ thrown' = NoError
                      ELSE /\ pc' = "failed"
                           /\ log' = <<>>
                           /\ thrown' = InvalidUrlError
              ELSE /\ attempt' = 1
                   /\ pc' = "fetching"
                   /\ pending' = {1}
                   /\ log' = <<FetchEvent(1, u, i, o.signal = "aborted")>>
                   /\ res' = NoResponse
                   /\ lastError' = NoError
                   /\ thrown' = NoError
    /\ UNCHANGED clientVars

\* Faulty variant: the Content-Type of a multipart call is deleted from the default
\* headers of the client, not from the merged copy.
requestStrippingDefaults(o) ==
    /\ pc = "idle"
    /\ opts' = o
    /\ aborted' = (o.signal = "aborted")
    /\ res' = NoResponse
    /\ lastError' = NoError
    /\ result' = Undefined
    /\ defaultHeaders' =
          IF o.method # "GET" /\ o.body # Undefined /\ isMultipartLike(o.body)
          THEN DeleteKey(defaultHeaders, "Content-Type") ELSE defaultHeaders
    /\ LET u == buildUrl(baseUrl, window, o.path, o.query)
           i == BuildInit(o.method, o.body,
                          MergedHeaders(defaultHeaders', authToken, o.headers))
       IN  /\ url' = u
           /\ IF ~u.ok
              THEN /\ init' = NoInit
                   /\ attempt' = 0
                   /\ pc' = "failed"
                   /\ pending' = {}
                   /\ log' = <<>>
                   /\ thrown' = InvalidUrlError
              ELSE IF LoopGoesOn(1, Attempts(o.retry))
              THEN /\ init' = i
                   /\ attempt' = 1
                   /\ pc' = "fetching"
                   /\ pending' = {1}
                   /\ log' = <<FetchEvent(1, u, i, o.signal = "aborted")>>
                   /\ thrown' = NoError
              ELSE /\ init' = i
                   /\ attempt' = 1
                   /\ pc' = "failed"
                   /\ pending' = {}
                   /\ log' = <<>>
                   /\ thrown' = FinalThrow(NoError)
    /\ UNCHANGED <<env, ctor, window, baseUrl, authToken, console, others>>

\* Faulty variant: the base URL is resolved anew for every request.
requestResolvingAnew(o) ==
    /\ pc = "idle"
    /\ opts' = o
    /\ aborted' = (o.signal = "aborted")
    /\ res' = NoResponse
    /\ lastError' = NoError
    /\ result' = Undefined
    /\ LET u == buildUrl(resolveBaseUrl(env, window), window, o.path, o.query)
           i == BuildInit(o.method, o.body,
                          MergedHeaders(defaultHeaders, authToken, o.headers))
       IN  /\ url' = u
           /\ IF ~u.ok
              THEN /\ init' = NoInit
                   /\ attempt' = 0
                   /\ pc' = "failed"
                   /\ pending' = {}
                   /\ log' = <<>>
                   /\ thrown' = InvalidUrlError
              ELSE IF LoopGoesOn(1, Attempts(o.retry))
              THEN /\ init' = i
                   /\ attempt' = 1
                   /\ pc' = "fetching"
                   /\ pending' = {1}
                   /\ log' = <<FetchEvent(1, u, i, o.signal = "aborted")>>
                   /\ thrown' = NoError
              ELSE /\ init' = i
                   /\ attempt' = 1
                   /\ pc' = "failed"
                   /\ pending' = {}
                   /\ log' = <<>>
                   /\ thrown' = FinalThrow(NoError)
    /\ UNCHANGED clientVars

\* request(o), up to its first await: build the URL, merge the headers,
\* encode the body and start attempt 1. One call is in progress at a time.
request(o) ==
    /\ pc = "idle"
    /\ opts' = o
    /\ aborted' = (o.signal = "aborted")
    /\ res' = NoResponse
    /\ lastError' = NoError
    /\ result' = Undefined
    /\ LET u == buildUrl(baseUrl, window, o.path, o.query)
           i == BuildInit(o.method, o.body,
                          MergedHeaders(defaultHeaders, authToken, o.headers))
       IN  /\ url' = u
           /\ IF ~u.ok
              THEN /\ init' = NoInit
                   /\ attempt' = 0
                   /\ pc' = "failed"
                   /\ pending' = {}
                   /\ log' = <<>>
                   /\ thrown' = InvalidUrlError
              ELSE IF LoopGoesOn(1, Attempts(o.retry))
              THEN /\ init' = i
                   /\ attempt' = 1
                   /\ pc' = "fetching"
                   /\ pending' = {1}
                   /\ log' = <<FetchEvent(1, u, i, o.signal = "aborted")>>
                   /\ thrown' = NoError
              ELSE /\ init' = i
                   /\ attempt' = 1
                   /\ pc' = "failed"
                   /\ pending' = {}
                   /\ log' = <<>>
                   /\ thrown' = FinalThrow(NoError)
    /\ UNCHANGED clientVars

get(o) == request([o EXCEPT !.method = "GET"])
post(o) == request([o EXCEPT !.method = "POST"])
put(o) == request([o EXCEPT !.method = "PUT"])
patch(o) == request([o EXCEPT !.method = "PATCH"])
delete(o) == request([o EXCEPT !.method = "DELETE"])

\* Faulty variant: an answer of 401 makes the client forget its bearer token.
FetchResolveClearingAuth(r) ==
    /\ pc = "fetching"
    /\ ~Cancelled
    /\ res' = r
    /\ pending' = pending \ {attempt}
    /\ log' = Append(log, ResponseEvent(attempt, r.status))
    /\ pc' = IF ok(r) THEN "readingOk" ELSE "readingErr"
    /\ authToken' = IF r.status = 401 THEN None ELSE authToken
    /\ UNCHANGED <<opts, url, init, attempt, lastError, thrown, result, aborted>>
    /\ UNCHANGED <<env, ctor, window, baseUrl, defaultHeaders, console, others>>

\* The transport resolves the attempt in flight with a response.
FetchResolve(r) ==
    /\ pc = "fetching"
    /\ ~Cancelled
    /\ res' = r
    /\ pending' = pending \ {attempt}
    /\ log' = Append(log, ResponseEvent(attempt, r.status))
    /\ pc' = IF ok(r) THEN "readingOk" ELSE "readingErr"
    /\ UNCHANGED <<opts, url, init, attempt, lastError, thrown, result, aborted>>
    /\ UNCHANGED clientVars

\* What the transport may reject attempt n with: once the caller's signal
\* has fired, an AbortError only.
Rejections(n) ==
    IF Cancelled THEN {AbortError(n)}
    ELSE {NetworkError(n), AbortError(n), ForeignApiError(n)}

\* Faulty variant: the attempt is given up on the failure while its transport
\* operation is still running.
FetchRejectLeavingPending(e) ==
    /\ pc = "fetching"
    /\ e \in Rejections(attempt)
    /\ Catch(e, Append(log, RejectEvent(attempt, e)))
    /\ UNCHANGED <<opts, url, init, attempt, result, aborted, pending>>
    /\ UNCHANGED clientVars

\* The transport rejects the attempt in flight.
FetchReject(e) ==
    /\ pc = "fetching"
    /\ e \in Rejections(attempt)
    /\ pending' = pending \ {attempt}
    /\ Catch(e, Append(log, RejectEvent(attempt, e)))
    /\ UNCHANGED <<opts, url, init, attempt, result, aborted>>
    /\ UNCHANGED clientVars

\* Faulty variant: the timer also settles the transport promise of the attempt.
TimeoutSettling ==
    /\ pc = "fetching"
    /\ ~Cancelled
    /\ TimerArmed(TimeoutMs(opts))
    /\ pending' = pending \ {attempt}
    /\ Catch(TimeoutError(TimeoutMs(opts), attempt),
             Append(log, TimeoutEvent(attempt, TimeoutMs(opts))))
    /\ UNCHANGED <<opts, url, init, attempt, result, aborted>>
    /\ UNCHANGED clientVars

\* The timer of withTimeout fires first: the attempt is rejected and the
\* transport promise stays pending.
Timeout ==
    /\ pc = "fetching"
    /\ ~Cancelled
    /\ TimerArmed(TimeoutMs(opts))
    /\ Catch(TimeoutError(TimeoutMs(opts), attempt),
             Append(log, TimeoutEvent(attempt, TimeoutMs(opts))))
    /\ UNCHANGED <<opts, url, init, attempt, result, aborted, pending>>
    /\ UNCHANGED clientVars

\* How a payload read may end: once the caller's signal has fired the read
\* rejects with an AbortError; otherwise it completes.
Faults == IF Cancelled THEN {"abort"} ELSE {"none"}

\* The payload of a non-2xx response has been read (or the read failed):
\* wait and go on for a retryable status, else throw the ApiError.
ReadErrBody(fault) ==
    /\ pc = "readingErr"
    /\ fault \in Faults
    /\ LET data == ErrorData(res, fault)
           message == ErrorMessage(res, data)
       IN  IF ShouldRetryStatus(attempt, Attempts(opts.retry),
                                RetryOn(opts.retry), res.status)
           THEN /\ pc' = "backoff"
                /\ log' = Append(log, WaitEvent(attempt,
                                   Delay(BackoffMs(opts.retry), attempt)))
                /\ res' = NoResponse
                /\ UNCHANGED <<lastError, thrown>>
           ELSE Catch(ApiError(message, res.status, data, attempt), log)
    /\ UNCHANGED <<opts, url, init, attempt, result, aborted, pending>>
    /\ UNCHANGED clientVars

\* The payload of a 2xx response has been read (or the read failed): return
\* the decoded value, or land in the catch block.
ReadOkBody(fault) ==
    /\ pc = "readingOk"
    /\ fault \in Faults
    /\ IF fault = "none" /\ Decodable(res)
       THEN /\ pc' = "succeeded"
            /\ result' = Decoded(res)
            /\ UNCHANGED <<res, lastError, thrown, log>>
       ELSE LET err == IF fault = "abort" THEN AbortError(attempt)
                       ELSE SyntaxError(attempt)
            IN  /\ Catch(err, Append(log, ReadFailEvent(attempt, err)))
                /\ result' = result
    /\ UNCHANGED <<opts, url, init, attempt, aborted, pending>>
    /\ UNCHANGED clientVars

\* Faulty variant: the headers are merged anew, with the token of the moment,
\* for every further attempt.
BackoffElapsedMergingAnew ==
    /\ pc = "backoff"
    /\ attempt' = attempt + 1
    /\ init' = BuildInit(opts.method, opts.body,
                         MergedHeaders(defaultHeaders, authToken, opts.headers))
    /\ IF LoopGoesOn(attempt + 1, Attempts(opts.retry))
       THEN /\ pc' = "fetching"
            /\ pending' = pending \cup {attempt + 1}
            /\ log' = Append(log, FetchEvent(attempt + 1, url, init', Cancelled))
            /\ thrown' = thrown
       ELSE /\ pc' = "failed"
            /\ thrown' = FinalThrow(lastError)
            /\ UNCHANGED <<pending, log>>
    /\ UNCHANGED <<opts, url, res, lastError, result, aborted>>
    /\ UNCHANGED clientVars

\* The backoff timer fires: the loop goes on with the next attempt.
BackoffElapsed ==
    /\ pc = "backoff"
    /\ attempt' = attempt + 1
    /\ IF LoopGoesOn(attempt + 1, Attempts(opts.retry))
       THEN /\ pc' = "fetching"
            /\ pending' = pending \cup {attempt + 1}
            /\ log' = Append(log, FetchEvent(attempt + 1, url, init, Cancelled))
            /\ thrown' = thrown
       ELSE /\ pc' = "failed"
            /\ thrown' = FinalThrow(lastError)
            /\ UNCHANGED <<pending, log>>
    /\ UNCHANGED <<opts, url, init, res, lastError, result, aborted>>
    /\ UNCHANGED clientVars

\* The caller fires the signal it passed, while the call is in progress.
CallerAbort ==
    /\ opts.signal = "live"
    /\ ~aborted
    /\ pc \in {"fetching", "readingErr", "readingOk", "backoff"}
    /\ aborted' = TRUE
    /\ UNCHANGED <<pc, opts, url, init, attempt, res, lastError, thrown, result,
                   pending, log>>
    /\ UNCHANGED clientVars

\* The transport promise of an attempt that withTimeout stopped waiting for
\* settles: its handlers run on an already settled promise.
LateSettle(n) ==
    /\ n \in pending
    /\ ~(pc = "fetching" /\ n = attempt)
    /\ pending' = pending \ {n}
    /\ UNCHANGED <<pc, opts, url, init, attempt, res, lastError, thrown, result,
                   aborted, log>>
    /\ UNCHANGED clientVars

\* The caller has received the outcome of the call: nothing of the call is
\* kept, and the next call may start.
Return ==
    /\ pc \in {"succeeded", "failed"}
    /\ pc' = "idle"
    /\ opts' = Plain
    /\ url' = InvalidUrl
    /\ init' = NoInit
    /\ attempt' = 0
    /\ res' = NoResponse
    /\ lastError' = NoError
    /\ thrown' = NoError
    /\ result' = Undefined
    /\ aborted' = FALSE
    /\ pending' = {}
    /\ log' = <<>>
    /\ UNCHANGED clientVars

Next ==
    \/ \E token \in Tokens : setAuth(token)
    \/ \E o \in RequestInputs : get(o)
    \/ \E o \in EncodingInputs : post(o)
    \/ \E o \in EncodingInputs : put(o)
    \/ \E o \in EncodingInputs : patch(o)
    \/ \E o \in EncodingInputs : delete(o)
    \/ \E r \in Responses : FetchResolve(r)
    \/ \E n \in 1..(MaxAttempts + 1) : FetchReject(AbortError(n))
    \/ \E n \in 1..(MaxAttempts + 1) : FetchReject(NetworkError(n))
    \/ \E n \in 1..(MaxAttempts + 1) : FetchReject(ForeignApiError(n))
    \/ Timeout
    \/ \E fault \in {"none", "abort"} : ReadErrBody(fault)
    \/ \E fault \in {"none", "abort"} : ReadOkBody(fault)
    \/ BackoffElapsed
    \/ CallerAbort
    \/ \E n \in 1..(MaxAttempts + 1) : LateSettle(n)
    \/ Return

Spec == Init /\ [][Next]_vars

\* ------------------------------------- the client in a changing runtime

\* Before the module is loaded: no client yet, any environment and context.
InitOrigin ==
    /\ env \in Envs
    /\ window \in Windows
    /\ ctor = [env |-> NoEnv, window |-> None]
    /\ baseUrl = <<>>
    /\ console = <<>>
    /\ others = {}
    /\ defaultHeaders = DefaultHeaders
    /\ authToken = None
    /\ pc = "unloaded"
    /\ opts = Plain
    /\ url = InvalidUrl
    /\ init = NoInit
    /\ attempt = 0
    /\ res = NoResponse
    /\ lastError = NoError
    /\ thrown = NoError
    /\ result = Undefined
    /\ aborted = FALSE
    /\ pending = {}
    /\ log = <<>>

\* The module is loaded: `api = ApiClient.instance` runs the constructor,
\* which resolves the base URL from the runtime of that moment.
Load ==
    /\ pc = "unloaded"
    /\ pc' = "idle"
    /\ baseUrl' = resolveBaseUrl(env, window)
    /\ console' = console \o BaseUrlWarnings(env, window)
    /\ ctor' = [env |-> env, window |-> window]
    /\ UNCHANGED <<env, window, defaultHeaders, authToken, others>>
    /\ UNCHANGED <<opts, url, init, attempt, res, lastError, thrown, result,
                   aborted, pending, log>>

\* process.env is changed after the client was built.
SetEnv(e) ==
    /\ pc # "unloaded"
    /\ e # env
    /\ env' = e
    /\ UNCHANGED <<ctor, window, baseUrl, defaultHeaders, authToken, console, others>>
    /\ UNCHANGED callVars

\* globalThis.window is set or deleted after the client was built.
SetWindow(w) ==
    /\ pc # "unloaded"
    /\ w # window
    /\ window' = w
    /\ UNCHANGED <<env, ctor, baseUrl, defaultHeaders, authToken, console, others>>
    /\ UNCHANGED callVars

NextOrigin ==
    \/ Load
    \/ \E e \in Envs : SetEnv(e)
    \/ \E w \in Windows : SetWindow(w)
    \/ \E o \in PathInputs : get(o)
    \/ \E r \in Responses : FetchResolve(r)
    \/ ReadErrBody("none")
    \/ ReadOkBody("none")
    \/ Return

SpecOrigin == InitOrigin /\ [][NextOrigin]_vars

\* ------------------------------------------- several calls on the client

\* How many other calls may be in flight beside the one followed step by step.
MaxOthers == 1

\* A plain GET, an upload whose caller forces a Content-Type, and a JSON
\* POST with a header of its own.
Upload ==
    [Plain EXCEPT !.method = "POST", !.body = FormDataBody,
                  !.headers = Record("Content-Type", "application/json")]
ConcurrentInputs ==
    { Plain, Upload,
      [Plain EXCEPT !.method = "POST", !.body = ObjFoo,
                    !.headers = Record("X-Test", "yes")] }

\* Another caller starts a call on the same client: the synchronous part of
\* request() up to its first fetch runs, with the client state of the moment.
StartOther(o) ==
    /\ pc # "unloaded"
    /\ Cardinality(others) < MaxOthers
    /\ buildUrl(baseUrl, window, o.path, o.query).ok
    /\ others' = others \cup
          {[opts |-> o,
            init |-> BuildInit(o.method, o.body,
                               MergedHeaders(defaultHeaders, authToken, o.headers))]}
    /\ UNCHANGED <<env, ctor, window, baseUrl, defaultHeaders, authToken, console>>
    /\ UNCHANGED callVars

\* A call of another caller ends.
FinishOther(c) ==
    /\ c \in others
    /\ others' = others \ {c}
    /\ UNCHANGED <<env, ctor, window, baseUrl, defaultHeaders, authToken, console>>
    /\ UNCHANGED callVars

NextConcurrent ==
    \/ \E token \in Tokens : setAuth(token)
    \/ \E o \in ConcurrentInputs : request(o)
    \/ \E o \in ConcurrentInputs : StartOther(o)
    \/ \E c \in others : FinishOther(c)
    \/ \E r \in Responses : FetchResolve(r)
    \/ ReadErrBody("none")
    \/ ReadOkBody("none")
    \/ Return

SpecConcurrent == Init /\ [][NextConcurrent]_vars

\* ------------------------------------------------ timers that do fire

\* A transport operation or a payload read whose signal has fired is
\* rejected with an AbortError.
AbortSettles ==
    /\ Cancelled
    /\ \/ FetchReject(AbortError(attempt))
       \/ ReadErrBody("abort")
       \/ ReadOkBody("abort")

NextLive ==
    \/ \E o \in RetryInputs : get(o)
    \/ \E r \in Responses : FetchResolve(r)
    \/ \E n \in 1..(MaxAttempts + 1) : FetchReject(AbortError(n))
    \/ \E n \in 1..(MaxAttempts + 1) : FetchReject(NetworkError(n))
    \/ Timeout
    \/ \E fault \in {"none", "abort"} : ReadErrBody(fault)
    \/ \E fault \in {"none", "abort"} : ReadOkBody(fault)
    \/ BackoffElapsed
    \/ CallerAbort
    \/ \E n \in 1..(MaxAttempts + 1) : LateSettle(n)
    \/ Return

\* The timers of setTimeout fire (the deadline of withTimeout, the backoff
\* wait) and an aborted operation is rejected; the transport and the payload
\* reads may otherwise never settle.
SpecLive ==
    /\ Init
    /\ [][NextLive]_vars
    /\ WF_vars(Timeout)
    /\ WF_vars(BackoffElapsed)
    /\ WF_vars(AbortSettles)

\* =============================================================== claims

\* Reading the history.
IsFetch(i) == log[i].ev = "fetch"
IsOutcome(i) == log[i].ev \in {"response", "reject", "timeout"}
FetchesOf(n) == {i \in DOMAIN log : IsFetch(i) /\ log[i].n = n}
Last == log[Len(log)]
MaxOfCall == Attempts(opts.retry)
WaitAfter(n) == WaitEvent(n, Delay(BackoffMs(opts.retry), n))

\* After event i the call waits the backoff of attempt n and then starts
\* attempt n + 1, once.
WaitsThenRetries(i, n) ==
    /\ i < Len(log)
    /\ log[i + 1] = WaitAfter(n)
    /\ \/ i + 1 = Len(log) /\ pc = "backoff"
       \/ i + 2 <= Len(log) /\ IsFetch(i + 2) /\ log[i + 2].n = n + 1
    /\ Cardinality(FetchesOf(n + 1)) <= 1

\* C1: a non-2xx response on attempt n < max attempts whose status is in the
\* retryable set is followed by the backoff wait of attempt n and then by
\* exactly one further transport attempt, n + 1; a status outside the set is
\* followed by no further attempt, and the call fails with the ApiError of
\* that status.
C1_RetryOnStatus ==
    \A i \in DOMAIN log :
        (log[i].ev = "response" /\ log[i].status \notin 200..299
           /\ log[i].n < MaxOfCall)
        => IF log[i].status \in RetryOn(opts.retry)
           THEN \/ i = Len(log) /\ pc = "readingErr"
                \/ WaitsThenRetries(i, log[i].n)
           ELSE /\ i = Len(log)
                /\ \/ pc = "readingErr"
                   \/ /\ pc = "failed"
                      /\ thrown.name = "ApiError"
                      /\ thrown.status = Some(log[i].status)
                      /\ fetchCalls = log[i].n

\* A call that retried a 500 on attempt 1 and then failed on a 404 with
\* attempts to spare.
C1_Witness ==
    /\ pc = "failed"
    /\ Len(log) >= 5
    /\ log[2].ev = "response" /\ log[2].status = 500
    /\ log[3].ev = "wait" /\ IsFetch(4) /\ log[4].n = 2
    /\ log[5].ev = "response" /\ log[5].status = 404
    /\ MaxOfCall = 3
    /\ thrown.status = Some(404)

\* C2: when the transport rejects an attempt with an AbortError, no further
\* attempt is made whatever budget remains, and the call is rejected with
\* that same error.
C2_AbortNotRetried ==
    \A i \in DOMAIN log :
        (log[i].ev = "reject" /\ log[i].err.name = "AbortError")
        => /\ i = Len(log)
           /\ pc = "failed"
           /\ thrown = log[i].err
           /\ fetchCalls = log[i].n

\* The transport rejected attempt 1 with an AbortError while two more
\* attempts were allowed.
C2_Witness ==
    /\ pc = "failed"
    /\ MaxOfCall = 3
    /\ Len(log) = 2
    /\ log[2].ev = "reject" /\ log[2].err = AbortError(1)
    /\ thrown = AbortError(1)

\* C3: once the caller's signal has fired the call is never retried: no
\* attempt after the first is started with the signal already fired, and
\* the call does not succeed.
C3_NoRetryAfterCancel ==
    /\ \A i \in DOMAIN log : (IsFetch(i) /\ log[i].n > 1) => ~log[i].aborted
    /\ pc = "succeeded" => ~Cancelled

C5_LastFailureSurfaced ==
    (pc = "failed" /\ url.ok)
    => /\ Len(log) > 0
       /\ Last.n = fetchCalls
       /\ thrown.at = fetchCalls
       /\ CASE Last.ev = "reject" -> thrown = Last.err
            [] Last.ev = "readfail" -> thrown = Last.err
            [] Last.ev = "timeout" -> thrown = TimeoutError(Last.ms, Last.n)
            [] Last.ev = "response" ->
                 /\ res.status = Last.status
                 /\ thrown.name = "ApiError"
                 /\ thrown.status = Some(Last.status)
                 /\ thrown.data \in {ErrorData(res, "none"), Undefined}
                 /\ thrown.message = ErrorMessage(res, thrown.data)
            [] OTHER -> FALSE

\* Attempt 1 was rejected by the network, attempt 2 timed out, attempt 3 got
\* a 400 and the caller received the ApiError of attempt 3.
C5_Witness ==
    /\ pc = "failed"
    /\ fetchCalls = 3
    /\ log[2].ev = "reject"
    /\ \E i \in DOMAIN log : log[i].ev = "timeout"
    /\ Last.ev = "response" /\ Last.status = 400
    /\ thrown.name = "ApiError" /\ thrown.at = 3

\* Every attempt before event i failed with a retryable HTTP status or a
\* network rejection.
EarlierFailedRetryably(i) ==
    \A j \in 1..(i - 1) :
        /\ log[j].ev \notin {"timeout", "readfail"}
        /\ log[j].ev = "response" =>
              log[j].status \notin 200..299 /\ log[j].status \in RetryOn(opts.retry)
        /\ log[j].ev = "reject" => log[j].err.name = "TypeError"

\* C6: after retryable failures of attempts 1..k-1, a 2xx response on
\* attempt k ends the attempts: the transport is invoked exactly k times and
\* the call returns the decoded payload of attempt k.
C6_SuccessOnAttemptK ==
    \A i \in DOMAIN log :
        (log[i].ev = "response" /\ log[i].status \in 200..299
           /\ EarlierFailedRetryably(i))
        => /\ FetchesOf(log[i].n + 1) = {}
           /\ pc \notin {"backoff", "fetching"}
           /\ pc = "succeeded" => result = Decoded(res) /\ fetchCalls = log[i].n

\* C7: a call whose URL was built invokes the transport at least once and at
\* most max(1, configured attempts) times, which is once without a policy.
C7_InvocationsBounded ==
    LET configured == IF opts.retry = None THEN 1
                      ELSE IF The(opts.retry).attempts = None THEN 1
                      ELSE The(The(opts.retry).attempts)
        effective == IF configured >= 1 THEN configured ELSE 1
    IN  (pc # "idle" /\ url.ok)
        => /\ fetchCalls >= 1
           /\ fetchCalls <= effective
           /\ opts.retry = None => fetchCalls = 1

\* A call configured with three attempts used all three of them.
C7_Witness ==
    /\ pc = "failed"
    /\ opts.retry # None
    /\ The(opts.retry).attempts = Some(3)
    /\ fetchCalls = 3

\* C8: the attempts of a call are serial: attempts are numbered in order,
\* attempt n + 1 starts only after an outcome of attempt n and the backoff
\* wait that follows it, and while an attempt is awaited it is the last one
\* started.
C8_SerialAttempts ==
    /\ \A j \in DOMAIN log :
          IsFetch(j)
          => /\ log[j].n = Cardinality({i \in 1..j : IsFetch(i)})
             /\ log[j].n > 1
                => /\ log[j - 1].ev = "wait" /\ log[j - 1].n = log[j].n - 1
                   /\ \E i \in 1..(j - 2) :
                         IsOutcome(i) /\ log[i].n = log[j].n - 1
    /\ pc = "fetching" => IsFetch(Len(log)) /\ Last.n = attempt
    /\ pc = "backoff" => Last.ev = "wait" /\ Last.n = attempt

\* The third attempt is in flight after two failures and two waits.
C8_Witness ==
    /\ pc = "fetching"
    /\ attempt = 3
    /\ Cardinality({i \in DOMAIN log : log[i].ev = "wait"}) = 2

\* C9: a GET call never hands a payload to the transport, whatever payload
\* the caller supplied.
C9_GetHasNoBody ==
    \A i \in DOMAIN log :
        (IsFetch(i) /\ opts.method = "GET")
        => log[i].init.method = "GET" /\ log[i].init.body = None

\* A GET call was given a JSON-encodable object as body and reached the
\* transport.
C9_Witness ==
    /\ opts.method = "GET"
    /\ opts.body = ObjFoo
    /\ Len(log) > 0 /\ IsFetch(1)
    /\ log[1].init.body = None

\* C10: a call that sends a FormData, Blob, ArrayBuffer or typed-array
\* payload hands the transport headers without any Content-Type entry,
\* whatever the caller's overrides, and the payload itself. (A GET call
\* sends no payload at all, C9, and is not a case of this claim.)
C10_MultipartNoContentType ==
    \A i \in DOMAIN log :
        (IsFetch(i) /\ isMultipartLike(opts.body) /\ opts.method # "GET")
        => /\ ~HeadersHas(log[i].init.headers, "Content-Type")
           /\ log[i].init.body = Some(opts.body)

\* The values the transport reads under the name Content-Type from a header
\* object, whatever the spelling of the keys.
ContentTypesOf(h) == {h[k] : k \in {x \in DOMAIN h : Lower(x) = "content-type"}}
IsJsonType(h) == ContentTypesOf(h) = {"application/json"}

\* C11 (as stated): every call that was given a payload and whose merged
\* headers say Content-Type application/json hands the transport the JSON
\* text of that payload.
C11_JsonSerialisedAnyPayload ==
    \A i \in DOMAIN log :
        (IsFetch(i) /\ opts.body # Undefined
           /\ IsJsonType(MergedHeaders(defaultHeaders, authToken, opts.headers)))
        => log[i].init.body = Some(JSONstringify(opts.body))

\* C11 (amended): a call of a verb other than GET that was given a payload
\* which is not multipart-like, and whose headers say Content-Type
\* application/json, hands the transport the JSON text of that payload.
C11_JsonSerialised ==
    \A i \in DOMAIN log :
        (IsFetch(i) /\ opts.method # "GET" /\ opts.body # Undefined
           /\ ~isMultipartLike(opts.body) /\ IsJsonType(log[i].init.headers))
        => log[i].init.body = Some(JSONstringify(opts.body))

\* A POST of { foo: 'bar' } under the default headers reached the transport
\* as JSON text.
C11_Witness ==
    /\ opts.method = "POST"
    /\ opts.body = ObjFoo
    /\ opts.headers = NoHeaders
    /\ Len(log) > 0 /\ IsFetch(1)
    /\ IsJsonType(log[1].init.headers)
    /\ log[1].init.body = Some(JSONstringify(ObjFoo))

\* C12: a call that was given no payload hands the transport no payload,
\* whatever its verb and headers; and a call that sends a payload which is
\* not multipart-like, under headers whose Content-Type is not
\* application/json, hands the transport that payload unmodified. (A GET
\* call sends no payload at all, C9.)
C12_PayloadPassedThrough ==
    \A i \in DOMAIN log :
        IsFetch(i)
        => /\ opts.body = Undefined => log[i].init.body = None
           /\ (opts.method # "GET" /\ opts.body # Undefined
                 /\ ~isMultipartLike(opts.body)
                 /\ ~IsJsonType(log[i].init.headers))
              => log[i].init.body = Some(opts.body)

\* The values the transport reads under a header name from a header object,
\* whatever the spelling of the keys.
HeaderValues(h, name) == {h[k] : k \in {x \in DOMAIN h : Lower(x) = Lower(name)}}

\* Whether the encoder strips the header from the call (multipart payload).
Stripped(o, name) ==
    /\ Lower(name) = "content-type"
    /\ o.method # "GET" /\ o.body # Undefined /\ isMultipartLike(o.body)

\* C13: the headers a call starts with are the client defaults, then
\* Authorization: Bearer <token> when a token is set, then the per-call
\* overrides: an overridden header has the per-call value only, a default
\* that is not overridden keeps its value, and without a token the client
\* adds no Authorization header.
C13_HeaderPrecedence ==
    [][(pc = "idle" /\ pc' = "fetching")
       => LET h == init'.headers
              o == opts'
              over == o.headers.entries
              overridden(name) == \E k \in DOMAIN over : Lower(k) = Lower(name)
          IN  /\ \A k \in DOMAIN over :
                    ~Stripped(o, k) => HeaderValues(h, k) = {over[k]}
              /\ \A k \in DOMAIN defaultHeaders :
                    (~overridden(k) /\ ~Stripped(o, k))
                    => HeaderValues(h, k) = {defaultHeaders[k]}
              /\ ~overridden("Authorization")
                 => HeaderValues(h, "Authorization") =
                      IF authToken = None THEN {}
                      ELSE {"Bearer " \o The(authToken)}]_vars

\* C14: a call succeeds only when the response of its last attempt has a
\* status in 200..299; when the last response has another status the call
\* fails with an ApiError of that status which carries the payload decoded
\* from that response (undefined when it could not be read or parsed),
\* whichever source gave the message.
C14_StatusClassifies ==
    /\ pc = "succeeded"
       => /\ Last.ev = "response" /\ Last.n = fetchCalls
          /\ Last.status \in 200..299
          /\ res.status = Last.status
    /\ (pc \in {"succeeded", "failed"} /\ Len(log) > 0
          /\ Last.ev = "response" /\ Last.status \notin 200..299)
       => /\ pc = "failed"
          /\ thrown.name = "ApiError"
          /\ thrown.status = Some(Last.status)
          /\ res.status = Last.status
          /\ thrown.data = IF Cancelled THEN Undefined
                           ELSE IF res.contentType = Some("application/json")
                                THEN IF res.wire.enc = "json" THEN res.wire.of
                                     ELSE Undefined
                                ELSE TextOf(res)

\* The second and last attempt was answered 404 with a JSON payload; the
\* call failed with an ApiError carrying 404 and that payload, its message
\* taken from the status text.
C14_Witness ==
    /\ pc = "failed"
    /\ fetchCalls = 2
    /\ Last.ev = "response" /\ Last.status = 404
    /\ thrown.status = Some(404)
    /\ thrown.data = ObjError
    /\ thrown.message = Str("Not Found")

\* C15: the message of the ApiError built from a non-2xx response is, in
\* this order of preference, the non-empty string `message` field of the
\* JSON object payload, the non-empty text payload of a response not
\* declared JSON, the non-empty status text, and `HTTP <status>` only when
\* none of these is there.
C15_MessagePreference ==
    (pc = "failed" /\ Len(log) > 0 /\ Last.ev = "response")
    => LET data == thrown.data
           isJson == res.contentType = Some("application/json")
           hasField == /\ isJson /\ data.t = "object"
                       /\ "message" \in DOMAIN data.f
                       /\ data.f["message"].t = "string"
                       /\ data.f["message"] # Str("")
           hasText == ~isJson /\ data.t = "string" /\ data # Str("")
       IN  thrown.message =
             IF hasField THEN data.f["message"]
             ELSE IF hasText THEN data
             ELSE IF res.statusText # "" THEN Str(res.statusText)
             ELSE Fmt("HTTP {n}", res.status)

\* C16: the base URL the client is built with is the trimmed server-only
\* value on the server and the trimmed public value in the browser, the
\* other value when the preferred one is unset or blank, and the empty
\* string when both are: it is not empty when one of the two is set and not
\* blank.
C16_OriginPreference ==
    pc # "unloaded"
    => LET server == TrimmedOrEmpty(ctor.env.API_BASE_URL)
           public == TrimmedOrEmpty(ctor.env.NEXT_PUBLIC_API_BASE_URL)
           preferred == IF ctor.window = None THEN server ELSE public
           other == IF ctor.window = None THEN public ELSE server
       IN  /\ preferred # <<>> => baseUrl = StripTrailingSlashes(preferred)
           /\ (server = <<>> /\ public = <<>>) => baseUrl = <<>>
           /\ (server # <<>> \/ public # <<>>) => baseUrl # <<>>

\* C17 (as stated): every request is sent to the origin given by the
\* environment and the execution context of the moment the client was built.
C17_OriginFixedAtConstruction ==
    [][(pc = "idle" /\ pc' \in {"fetching", "failed"})
       => url' = buildUrl(resolveBaseUrl(ctor.env, ctor.window), ctor.window,
                          opts'.path, opts'.query)]_vars

\* C17 (amended): the base URL is resolved when the client is built and never
\* again. A later change of the environment values changes the URL of no
\* request, and a later change of the execution context changes it only when
\* the base URL is empty: the placeholder origin is then the one of the
\* context in which the request is made.
C17_BaseFixedAtConstruction ==
    [][/\ pc # "unloaded" => baseUrl' = baseUrl
       /\ (pc = "idle" /\ pc' \in {"fetching", "failed"})
          => LET base == resolveBaseUrl(ctor.env, ctor.window)
             IN  url' = buildUrl(base,
                                 IF base # <<>> THEN ctor.window ELSE window,
                                 opts'.path, opts'.query)]_vars

\* A request is in flight to the base URL of construction although the
\* environment and the context have both changed since and would now resolve
\* to another base.
C17_Witness ==
    /\ pc = "fetching"
    /\ baseUrl # <<>>
    /\ env # ctor.env /\ window # ctor.window
    /\ resolveBaseUrl(env, window) # baseUrl
    /\ opts.path = PathHealth
    /\ url.href = baseUrl \o PathHealth

\* C18: the URL of a request is its origin followed by the path with a
\* single leading '/': the origin is the base URL when that is not empty,
\* else http://localhost on the server and the origin of the page in the
\* browser.
C18_OriginThenPath ==
    [][(pc = "idle" /\ pc' = "fetching")
       => LET origin == IF baseUrl # <<>> THEN baseUrl
                        ELSE IF window = None
                             THEN <<"h", "t", "t", "p", ":", "/", "/",
                                    "l", "o", "c", "a", "l", "h", "o", "s", "t">>
                             ELSE The(window)
          IN  url'.href = origin \o <<"/">> \o SkipSlashes(opts'.path)]_vars

\* What a present query value looks like in the URL.
Written(v) ==
    CASE v = Str("hello world") -> "hello+world"
      [] v = Str("a&b=c") -> "a%26b%3Dc"
      [] v = Str("") -> ""
      [] v = Num(2) -> "2"
      [] v = Num(0) -> "0"
      [] v = Bool(FALSE) -> "false"
      [] OTHER -> "?"

\* C19: in the URL handed to the transport a query key whose value is null
\* or undefined does not appear, and every key whose value is a string, a
\* number or a boolean (false, 0 and '' included) appears exactly once, with
\* its value stringified and encoded; nothing else appears.
C19_QueryEncoding ==
    \A i \in DOMAIN log :
        IsFetch(i)
        => LET sp == log[i].url.search
               q == IF opts.query = None THEN <<>> ELSE The(opts.query)
               at(k) == {p \in DOMAIN sp : sp[p][1] = k}
           IN  /\ \A j \in DOMAIN q :
                     IF q[j].v \in {Null, Undefined}
                     THEN at(q[j].k) = {}
                     ELSE /\ Cardinality(at(q[j].k)) = 1
                          /\ \A p \in at(q[j].k) : sp[p][2] = Written(q[j].v)
               /\ \A p \in DOMAIN sp : \E j \in DOMAIN q : q[j].k = sp[p][1]

\* A request with the eight-entry query reached the transport with the six
\* present values, the space and the reserved characters encoded.
C19_Witness ==
    /\ opts.query # None
    /\ Len(log) > 0 /\ IsFetch(1)
    /\ log[1].url.search =
         << <<"q", "hello+world">>, <<"page", "2">>, <<"flag", "false">>,
            <<"zero", "0">>, <<"empty", "">>, <<"amp", "a%26b%3Dc">> >>

\* C20 (as stated): a call whose timeoutMs is 0 or absent has no deadline:
\* none of its attempts is rejected by the timer.
C20_NoDeadlineWhenZeroOrAbsent ==
    opts.timeoutMs \in {None, Some(0)}
    => /\ \A i \in DOMAIN log : log[i].ev # "timeout"
       /\ ~(pc = "fetching" /\ ENABLED Timeout)

\* C20 (amended): a call whose timeoutMs is 0 has no deadline: no timer is
\* armed while an attempt is awaited and none of its attempts is rejected by
\* a timeout, however long the transport takes. A call without timeoutMs
\* has the default deadline of 15000 ms, and every timeout carries the
\* positive duration of the call.
C20_NoDeadlineWhenZero ==
    /\ opts.timeoutMs = Some(0)
       => /\ \A i \in DOMAIN log : log[i].ev # "timeout"
          /\ ~ENABLED Timeout
          /\ pc = "failed" => thrown.message # Fmt("Request timed out after {n}ms", 0)
    /\ \A i \in DOMAIN log :
          log[i].ev = "timeout"
          => /\ log[i].ms > 0
             /\ log[i].ms = IF opts.timeoutMs = None THEN 15000
                            ELSE The(opts.timeoutMs)

\* The second attempt of a call with timeoutMs 0 is awaited, after a failure
\* of the first that was not a timeout.
C20_Witness ==
    /\ opts.timeoutMs = Some(0)
    /\ pc = "fetching"
    /\ attempt = 2
    /\ log[2].ev = "reject"

\* C21: the timeout of a call is one deadline for the whole call: once a
\* timeout has expired the call is rejected, with no backoff wait and no
\* transport attempt after it.
C21_HardTimeoutForWholeCall ==
    \A i \in DOMAIN log :
        log[i].ev = "timeout"
        => /\ i = Len(log)
           /\ pc = "failed"
           /\ fetchCalls = log[i].n

C23_ConstructionErrorBeforeAttempts ==
    (pc # "idle" /\ ~buildUrl(baseUrl, window, opts.path, opts.query).ok)
    => /\ pc = "failed"
       /\ thrown = InvalidUrlError
       /\ log = <<>>
       /\ fetchCalls = 0
       /\ lastError = NoError

\* The path "//" made no URL under a policy of three attempts.
C23_Witness ==
    /\ pc = "failed"
    /\ thrown = InvalidUrlError
    /\ opts.path = <<"/", "/">>
    /\ Attempts(opts.retry) = 3
    /\ fetchCalls = 0

C25_OnlySetAuthChangesClient ==
    [][ /\ baseUrl' = baseUrl
        /\ defaultHeaders' = defaultHeaders
        /\ callVars' # callVars => authToken' = authToken ]_vars

\* A POST has failed on a 401 answer while a bearer token was set; the token
\* and the default headers are still there.
C25_Witness ==
    /\ pc = "failed"
    /\ opts.method = "POST"
    /\ res.status = 401
    /\ authToken # None
    /\ defaultHeaders = DefaultHeaders

\* C26: the URL, the encoded body and the merged headers of a call are made
\* once, before the first attempt: every attempt hands the transport the same
\* URL and the same init, those the call holds, so a setAuth made while the
\* call is in flight or waiting changes no header of a later attempt.
C26_SameRequestEveryAttempt ==
    \A i \in DOMAIN log :
        IsFetch(i)
        => /\ log[i].url = url
           /\ log[i].init = init
           /\ \A j \in DOMAIN log :
                 IsFetch(j) => log[j].url = log[i].url /\ log[j].init = log[i].init

\* The second attempt is in flight without an Authorization header, as the
\* first was, although a bearer token has been set since the call began.
C26_Witness ==
    /\ pc = "fetching"
    /\ attempt = 2
    /\ FetchesOf(1) # {} /\ FetchesOf(2) # {}
    /\ authToken # None
    /\ ~HeadersHas(init.headers, "Authorization")

\* C27: whatever the path of a call, its URL is the chosen origin followed by
\* the path with exactly one leading '/': a missing '/' is added and several
\* are made one, so that the request goes to the chosen origin.
C27_SingleLeadingSeparator ==
    LET origin == IF baseUrl # <<>> THEN baseUrl
                  ELSE IF isServer(window) THEN HttpScheme \o Localhost
                  ELSE The(window)
    IN  (pc # "idle" /\ ParseBase(origin).ok)
        => /\ url.ok
           /\ StartsWith(url.href, origin \o <<"/">>)
           /\ ~StartsWith(url.href, origin \o <<"/", "/">>)

\* C28: the base URL of the client never ends with '/': it is the chosen
\* variable, trimmed, without any of its trailing '/', so that the base URL
\* followed by a path with one leading '/' has a single '/' where they join.
C28_NoTrailingSeparator ==
    pc # "unloaded"
    => /\ baseUrl = <<>> \/ baseUrl[Len(baseUrl)] # "/"
       /\ LET var == IF ctor.window = None THEN ctor.env.API_BASE_URL
                     ELSE ctor.env.NEXT_PUBLIC_API_BASE_URL
              chosen == IF var = None THEN <<>> ELSE Trim(The(var))
          IN  \E k \in 0..Len(chosen) :
                 /\ baseUrl = SubSeq(chosen, 1, k)
                 /\ \A j \in (k + 1)..Len(chosen) : chosen[j] = "/"
       /\ (pc = "fetching" /\ baseUrl # <<>> /\ opts.path \in {<<"/", "h">>, <<"h">>})
          => url.href = baseUrl \o <<"/", "h">>

\* A client built on the server from 'https://srv// ' sends its request to
\* https://srv/h.
C28_Witness ==
    /\ pc = "fetching"
    /\ ctor.window = None
    /\ ctor.env.API_BASE_URL = Some(ServerBase \o <<"/", "/", " ">>)
    /\ baseUrl = ServerBase
    /\ url.href = ServerBase \o <<"/", "h">>

FailedWithoutMessageField ==
    /\ pc = "failed" /\ Len(log) > 0 /\ Last.ev = "response"
    /\ res.contentType = Some("application/json")
    /\ thrown.name = "ApiError"
    /\ thrown.data.t = "object"
    /\ ~("message" \in DOMAIN thrown.data.f /\ thrown.data.f["message"].t = "string")

C31_OnlyDecodeFailureSwallowed ==
    [][ (pc = "readingErr" /\ pc' # "readingErr")
        => IF Cancelled
           THEN pc' = "failed" /\ thrown'.name = "AbortError"
           ELSE /\ pc' = "backoff"
                   <=> (attempt < MaxOfCall /\ res.status \in RetryOn(opts.retry))
                /\ pc' = "failed"
                   => /\ thrown'.name = "ApiError"
                      /\ thrown'.status = Some(res.status)
                      /\ (res.contentType = Some("application/json")
                          /\ res.wire.enc # "json")
                         => thrown'.data = Undefined ]_vars

\* Attempts of the call that ended by a timeout.
TimedOut == {log[i].n : i \in {j \in DOMAIN log : log[j].ev = "timeout"}}

\* C32: a timeout only stops the wait: the transport operation of the attempt
\* is still pending after it, and when that operation settles later nothing
\* of the call changes: no outcome is recorded, no attempt or wait is added,
\* and the result or error of the call stays as it is.
C32_TimeoutLeavesTransportPending ==
    [][ /\ (Len(log') = Len(log) + 1 /\ log'[Len(log')].ev = "timeout")
           => log'[Len(log')].n \in pending'
        /\ ((\E n \in TimedOut : n \in pending /\ n \notin pending')
            /\ ~(pc \in {"succeeded", "failed"} /\ pc' = "idle"))
           => UNCHANGED <<pc, attempt, res, lastError, thrown, result, log>> ]_vars

\* Attempt 1 timed out, attempt 2 succeeded, and the transport operation of
\* attempt 1 has settled since: the call is still succeeded.
C32_Witness ==
    /\ pc = "succeeded"
    /\ 1 \in TimedOut
    /\ pending = {}
    /\ fetchCalls = 2

\* C33: the wait after failed attempt n is the base backoff times 2^(n - 1),
\* after a retryable response as after a retryable transport failure, with no
\* cap: the first wait is the base and each later wait is twice the one
\* before.
C33_BackoffDoubles ==
    LET base == IF opts.retry = None THEN 300
                ELSE IF The(opts.retry).backoffMs = None THEN 300
                ELSE The(The(opts.retry).backoffMs)
    IN  \A i \in DOMAIN log :
            log[i].ev = "wait"
            => /\ i > 1 /\ log[i - 1].ev \in {"response", "reject", "timeout", "readfail"}
               /\ log[i - 1].n = log[i].n
               /\ log[i].delay = base * 2^(log[i].n - 1)
               /\ \A j \in DOMAIN log :
                     (log[j].ev = "wait" /\ log[j].n = log[i].n + 1)
                     => log[j].delay = 2 * log[i].delay

\* The call waited 300 ms after a 500 answer to attempt 1 and 600 ms after a
\* network failure of attempt 2.
C33_Witness ==
    /\ pc = "fetching" /\ attempt = 3
    /\ Len(log) = 7
    /\ log[2].ev = "response" /\ log[3] = WaitEvent(1, 300)
    /\ log[5].ev = "reject" /\ log[6] = WaitEvent(2, 600)

\* C34: a further attempt is started only after an attempt that got a
\* retryable non-2xx response or got no response at all (rejection or
\* timeout); after a 2xx response the call neither waits nor starts another
\* attempt, even when the payload of that response cannot be decoded.
C34_NoRetryAfterSuccessResponse ==
    \A i \in DOMAIN log :
        /\ (log[i].ev = "response" /\ log[i].status \in 200..299)
           => /\ FetchesOf(log[i].n + 1) = {}
              /\ \A j \in DOMAIN log : ~(log[j].ev = "wait" /\ log[j].n = log[i].n)
        /\ (IsFetch(i) /\ log[i].n > 1)
           => \E j \in 1..(i - 1) :
                 /\ log[j].n = log[i].n - 1
                 /\ \/ log[j].ev \in {"reject", "timeout"}
                    \/ /\ log[j].ev = "response"
                       /\ log[j].status \notin 200..299
                       /\ log[j].status \in RetryOn(opts.retry)

C36_NoSharedRequestState ==
    [][ /\ defaultHeaders' = defaultHeaders
        /\ (pc # "idle" /\ pc' # "idle") => opts'.headers = opts.headers
        /\ \A c \in others' \ others :
              /\ init' = init
              /\ c.opts.headers = NoHeaders
                 => /\ "Content-Type" \in DOMAIN c.init.headers
                    /\ c.init.headers["Content-Type"] = "application/json"
        /\ (pc = "idle" /\ pc' = "fetching")
           => /\ others' = others
              /\ opts'.headers = NoHeaders
                 => /\ "Content-Type" \in DOMAIN init'.headers
                    /\ init'.headers["Content-Type"] = "application/json" ]_vars

\* A plain GET is in flight with the default Content-Type beside an upload
\* that is in flight without any Content-Type.
C36_Witness ==
    /\ pc = "fetching"
    /\ opts = Plain
    /\ init.headers["Content-Type"] = "application/json"
    /\ \E c \in others :
          /\ c.opts = Upload
          /\ ~HeadersHas(c.init.headers, "Content-Type")
    /\ defaultHeaders = DefaultHeaders

\* C37: a call made with a positive timeout ends: from the moment it is in
\* progress it reaches succeeded or failed, even if the transport or the
\* read of a payload never settles, as long as the timers fire.
C37_CallTerminates ==
    (pc \in {"fetching", "readingErr", "readingOk", "backoff"}
     /\ TimerArmed(TimeoutMs(opts)))
    ~> (pc \in {"succeeded", "failed"})

====
